---------------------------- MODULE Spec2Model ----------------------------
(***************************************************************************)
(* Model of pl5_bonus_calculation.py: the draw-table loader, the report    *)
(* locator, the recommendation extractor, the scoring engine and the       *)
(* ledger manager (manage_report), with main_process tying them together.  *)
(*                                                                         *)
(* Text is modelled by what the code reads in it.  A string the code scans *)
(* character by character (a period, a CSV field, the inside of a          *)
(* bracketed list) is a sequence of one-character strings.  The ledger     *)
(* file is the sequence of its sections, i.e. the pieces between the       *)
(* delimiter "\n" + "="*80 + "\n"; a section is the sequence of its lines, *)
(* a line being its fixed label plus the value printed after it.  The      *)
(* fixed Chinese labels are written with ASCII names:                      *)
(*    "EvalTime"     评估时间:      "ErrTime"      错误时间:                  *)
(*    "EvalPeriod"   评估期号:      "ErrInfo"      错误信息:                  *)
(*    "PrizeNumbers" 开奖号码:      "ErrLogHeader" 错误日志:                  *)
(*    "RecCount"     推荐数量:      "WinDetails"   中奖详情:                  *)
(*    "WinCount"     中奖数量:      "Bet"          第k注: ... 元               *)
(*    "TotalPrize"   总奖金:                                                *)
(* No rendered value contains the delimiter, so split and join are inverse *)
(* on what manage_report writes.  File reads and writes are taken to       *)
(* succeed (the except branches of manage_report only log).  The clock     *)
(* ticks at every write, so the timestamp printed in an entry also tells   *)
(* the order of insertion (datetime.now() is printed to the second).       *)
(***************************************************************************)
EXTENDS Naturals, Integers, Sequences, FiniteSets, TLC

VARIABLES
    \* The ledger file and the history of its writes.
    ledger,           \* sections of latest_pl5_calculation.txt (<<>>: no file / empty)
    clock,            \* datetime.now(), advanced by every write
    prev_ledger,      \* history: the ledger before the last write
    last_write,       \* history: "none", "entry" or "error" (what the last write inserted)
    inserted_normal,  \* history: rendered normal entries ever inserted, newest first
    inserted_error,   \* history: rendered error entries ever inserted, newest first
    writes,           \* history: number of ledger writes so far
    \* The files main_process reads, and what its last run computed.
    csv_file,         \* pl5.csv: None (missing, unreadable, empty) or Some(rows after the header)
    report_files,     \* the files matching pl5_analysis_output_*.txt
    run,              \* locals of the last run of main_process
    cycles,           \* number of runs of main_process so far
    \* Inputs and outputs of the extractor and the scoring engine run on their own.
    report_content,   \* single-bet lines of a report text
    given_bets,       \* list of bets handed to calculate_prize
    given_numbers,    \* authoritative numbers handed to calculate_prize
    parsed,           \* None, or Some(the 'single' list the extractor returned)
    scored,           \* None, or Some(what calculate_prize returned)
    \* Two overlapping invocations of manage_report.
    pc,               \* per process: "idle", or "write" (it has read and will write)
    content_read,     \* per process: the existing_content it read
    call,             \* per process: [new_entry, new_error] it was called with
    stale,            \* per process: another process wrote after it read
    prev_entry,       \* history: the section inserted by the write before the last
    last_call,        \* history: the arguments of the last writer
    last_read,        \* history: the content the last writer had read
    last_stale        \* history: the last writer read before the previous write happened

ledgerVars == <<ledger, clock, prev_ledger, last_write, inserted_normal,
                inserted_error, writes>>
mainVars == <<csv_file, report_files, run, cycles>>
pureVars == <<report_content, given_bets, given_numbers, parsed, scored>>
concVars == <<pc, content_read, call, stale, prev_entry, last_call, last_read, last_stale>>
vars == <<ledgerVars, mainVars, pureVars, concVars>>

(***************************************************************************)
(* Configuration                                                           *)
(***************************************************************************)
MAX_NORMAL_RECORDS == 10
MAX_ERROR_LOGS == 20
PRIZE_VALUE == 100000

\* Bounds of the model.
MaxWrites == 12     \* ledger writes in a behaviour of SpecLedger
MaxRows == 2        \* data rows of a draw table
MaxCycles == 2      \* runs of main_process in a behaviour of SpecMain
MaxBetLines == 3    \* single-bet lines of a report text given to the extractor
MaxBets == 3        \* bets of a list given to calculate_prize
MaxInvocations == 4 \* invocations of manage_report in a behaviour of SpecConcurrent

(***************************************************************************)
(* Helpers                                                                 *)
(***************************************************************************)
Min(a, b) == IF a <= b THEN a ELSE b

\* Python's s[:n].
Take(s, n) == SubSeq(s, 1, Min(n, Len(s)))

\* Optional values: <<>> is None, <<v>> is v.
None == <<>>
Some(v) == <<v>>

(***************************************************************************)
(* manage_report: classification of the sections read back                *)
(***************************************************************************)
\* The labels whose text contains the substring "错误" (no label contains "ERROR").
ErrorMarkedLabels == {"ErrTime", "ErrInfo", "ErrLogHeader"}

\* section.strip() is empty.
IsBlank(section) == Len(section) = 0

\* "ERROR" in section or "错误" in section
HasErrorMarker(section) ==
    \E i \in 1..Len(section) : section[i].label \in ErrorMarkedLabels

\* "评估时间:" in section
HasEvalMarker(section) ==
    \E i \in 1..Len(section) : section[i].label = "EvalTime"

IsErrorSection(section) == ~IsBlank(section) /\ HasErrorMarker(section)

IsNormalSection(section) ==
    ~IsBlank(section) /\ ~HasErrorMarker(section) /\ HasEvalMarker(section)

\* error_logs / normal_records after the loop over sections.
ErrorLogs(sections) == SelectSeq(sections, IsErrorSection)
NormalRecords(sections) == SelectSeq(sections, IsNormalSection)

(***************************************************************************)
(* manage_report: rendering                                                *)
(***************************************************************************)
DetailLine(detail) ==
    [label |-> "Bet",
     value |-> <<detail.index>> \o detail.numbers \o <<detail.prize_amount>>]

RECURSIVE DetailLines(_)
DetailLines(details) ==
    IF details = <<>> THEN <<>>
    ELSE <<DetailLine(Head(details))>> \o DetailLines(Tail(details))

\* "\n".join(entry_lines) for a new_entry dict.
RenderEntry(new_entry, now) ==
    << [label |-> "EvalTime",     value |-> <<now>>],
       [label |-> "EvalPeriod",   value |-> new_entry.period],
       [label |-> "PrizeNumbers", value |-> new_entry.prize_numbers],
       [label |-> "RecCount",     value |-> <<new_entry.recommendation_count>>],
       [label |-> "WinCount",     value |-> <<new_entry.winning_count>>],
       [label |-> "TotalPrize",   value |-> <<new_entry.total_prize>>] >>
    \o (IF new_entry.winning_details # <<>>
        THEN <<[label |-> "WinDetails", value |-> <<>>]>>
             \o DetailLines(new_entry.winning_details)
        ELSE <<>>)

\* The error_entry string for a new_error message.
RenderError(new_error, now) ==
    << [label |-> "ErrTime", value |-> <<now>>],
       [label |-> "ErrInfo", value |-> new_error] >>

\* The part "错误日志:" and the part "" put between the two streams.
ErrorLogHeader == << [label |-> "ErrLogHeader", value |-> <<>>] >>
BlankPart == <<>>

(***************************************************************************)
(* manage_report: merge, truncate, reassemble                              *)
(***************************************************************************)
\* normal_records.insert(0, ...) when new_entry is given.
InsertEntry(normal_records, new_entry, now) ==
    IF new_entry # None
    THEN <<RenderEntry(new_entry[1], now)>> \o normal_records
    ELSE normal_records

\* error_logs.insert(0, error_entry) when new_error is given.
InsertError(error_logs, new_error, now) ==
    IF new_error # None
    THEN <<RenderError(new_error[1], now)>> \o error_logs
    ELSE error_logs

\* A variant that keeps one record too many (used to test NormalRetention).
TruncateNormal_KeepsOneMore(normal_records) ==
    Take(normal_records, MAX_NORMAL_RECORDS + 1)

\* normal_records[:MAX_NORMAL_RECORDS]
TruncateNormal(normal_records) == Take(normal_records, MAX_NORMAL_RECORDS)

\* error_logs[:MAX_ERROR_LOGS]
TruncateErrors(error_logs) == Take(error_logs, MAX_ERROR_LOGS)

\* new_content_parts
Reassemble(normal_records, error_logs) ==
    normal_records
    \o (IF error_logs # <<>>
        THEN (IF normal_records # <<>> THEN <<BlankPart>> ELSE <<>>)
             \o <<ErrorLogHeader>> \o error_logs
        ELSE <<>>)

\* What manage_report writes, given the content it read.
ManageReport(existing_content, new_entry, new_error, now) ==
    Reassemble(
        TruncateNormal(InsertEntry(NormalRecords(existing_content), new_entry, now)),
        TruncateErrors(InsertError(ErrorLogs(existing_content), new_error, now)))


(***************************************************************************)
(* Characters and numbers                                                  *)
(***************************************************************************)
DigitChars == <<"0", "1", "2", "3", "4", "5", "6", "7", "8", "9">>

IsDigit(c) == \E i \in 1..Len(DigitChars) : DigitChars[i] = c

\* int(c) of one digit character.
DigitValue(c) == (CHOOSE i \in 1..Len(DigitChars) : DigitChars[i] = c) - 1

AllDigits(s) == \A i \in 1..Len(s) : IsDigit(s[i])

\* int(s) succeeds (no ValueError): here, a non-empty string of digits.
CanInt(s) == Len(s) > 0 /\ AllDigits(s)

\* int(s) of a string of digits; leading zeros do not count.
RECURSIVE IntOf(_)
IntOf(s) ==
    IF s = <<>> THEN 0
    ELSE 10 * IntOf(SubSeq(s, 1, Len(s) - 1)) + DigitValue(s[Len(s)])

(***************************************************************************)
(* get_period_data_from_csv                                                *)
(* A row is the sequence of its fields (row[1] is the period, row[2..6]    *)
(* the five positions); the header line is already skipped.                *)
(***************************************************************************)
\* A variant that wants five to seven digits (used to test EndToEndScenario).
IsPeriodString_FiveToSeven(s) == Len(s) >= 5 /\ Len(s) <= 7 /\ AllDigits(s)

\* re.match(r'^\d{4,7}$', row[0])
IsPeriodString(s) == Len(s) >= 4 /\ Len(s) <= 7 /\ AllDigits(s)

\* The row passes the shape test, every int() succeeds and every number is in 0..9.
ValidRow(row) ==
    /\ Len(row) >= 6
    /\ IsPeriodString(row[1])
    /\ \A i \in 2..6 : CanInt(row[i])
    /\ \A i \in 2..6 : IntOf(row[i]) >= 0 /\ IntOf(row[i]) <= 9

RowNumbers(row) == [i \in 1..5 |-> IntOf(row[i + 1])]

\* periods_list before sorting: one append per valid row, in row order.
RECURSIVE AppendedPeriods(_)
AppendedPeriods(rows) ==
    IF rows = <<>> THEN <<>>
    ELSE (IF ValidRow(Head(rows)) THEN <<Head(rows)[1]>> ELSE <<>>)
         \o AppendedPeriods(Tail(rows))

\* period_map: a later valid row of the same period overwrites an earlier one.
PeriodMap(rows) ==
    LET valid == {i \in 1..Len(rows) : ValidRow(rows[i])}
        last(p) == CHOOSE i \in valid :
                      /\ rows[i][1] = p
                      /\ \A j \in valid : rows[j][1] = p => j <= i
    IN  [p \in {rows[i][1] : i \in valid} |-> RowNumbers(rows[last(p)])]

\* Insert p after every element whose key is <= its own (a stable sort's place).
RECURSIVE InsertByInt(_, _)
InsertByInt(sorted, p) ==
    IF sorted = <<>> THEN <<p>>
    ELSE IF IntOf(p) < IntOf(Head(sorted))
         THEN <<p>> \o sorted
         ELSE <<Head(sorted)>> \o InsertByInt(Tail(sorted), p)

\* sorted(periods_list, key=int): stable, ascending by numeric value.
RECURSIVE SortedByInt(_)
SortedByInt(periods) ==
    IF periods = <<>> THEN <<>>
    ELSE InsertByInt(SortedByInt(SubSeq(periods, 1, Len(periods) - 1)),
                     periods[Len(periods)])

\* The pair returned; found = FALSE stands for (None, None).
GetPeriodDataFromCsv(rows) ==
    LET period_map == PeriodMap(rows)
    IN  IF DOMAIN period_map = {}
        THEN [found |-> FALSE, period_map |-> period_map, periods_list |-> <<>>]
        ELSE [found |-> TRUE, period_map |-> period_map,
              periods_list |-> SortedByInt(AppendedPeriods(rows))]

(***************************************************************************)
(* find_matching_report                                                    *)
(* A report file is [path, stamp, cutoff, bets]: stamp is the timestamp of *)
(* its file name (None when the name holds none), cutoff the digits of the *)
(* first "分析基于数据: 截至 N 期" of its text (None when there is none), bets    *)
(* its single-bet lines in text order.                                     *)
(***************************************************************************)
\* The files that become candidates for target_period.
Candidates(files, target_period) ==
    {f \in files : /\ f.cutoff # None
                   /\ f.cutoff[1] = target_period
                   /\ f.stamp # None}

\* candidates.sort(reverse=True)[0]: the greatest (timestamp, file_path).
LatestCandidate(candidates) ==
    CHOOSE f \in candidates :
        \A g \in candidates :
            \/ g.stamp[1] < f.stamp[1]
            \/ (g.stamp[1] = f.stamp[1] /\ g.path <= f.path)

\* None, or the report selected.
FindMatchingReport(files, target_period) ==
    IF Candidates(files, target_period) = {} THEN None
    ELSE Some(LatestCandidate(Candidates(files, target_period)))

(***************************************************************************)
(* parse_recommendations_from_report (the 'single' list, the only part     *)
(* main_process reads)                                                     *)
(* A single-bet line is [label, body]: the number after "注" and the        *)
(* characters between the brackets.                                        *)
(***************************************************************************)
\* The characters of [0-9\s,].
IsListChar(c) == IsDigit(c) \/ c = "," \/ c = " "

\* rec_pattern matches the line: the brackets hold one or more list characters.
RecPatternMatches(line) ==
    Len(line.body) > 0 /\ \A i \in 1..Len(line.body) : IsListChar(line.body[i])

\* [int(x) for x in re.findall(r'\d', numbers_str)]
RECURSIVE DigitsIn(_)
DigitsIn(body) ==
    IF body = <<>> THEN <<>>
    ELSE (IF IsDigit(Head(body)) THEN <<DigitValue(Head(body))>> ELSE <<>>)
         \o DigitsIn(Tail(body))

\* The line adds an entry to result['single'].
AcceptedLine(line) == RecPatternMatches(line) /\ Len(DigitsIn(line.body)) = 5

\* result['single']
RECURSIVE ParseSingles(_)
ParseSingles(lines) ==
    IF lines = <<>> THEN <<>>
    ELSE (IF AcceptedLine(Head(lines)) THEN <<DigitsIn(Head(lines).body)>> ELSE <<>>)
         \o ParseSingles(Tail(lines))

(***************************************************************************)
(* calculate_prize                                                         *)
(***************************************************************************)
\* A variant that reports the 0-based position (used to test ExactMatchScoring).
RECURSIVE WinningDetails_ZeroBased(_, _, _)
WinningDetails_ZeroBased(recommendations, prize_numbers, i) ==
    IF i > Len(recommendations) THEN <<>>
    ELSE (IF Len(recommendations[i]) = 5 /\ recommendations[i] = prize_numbers
          THEN <<[index |-> i - 1, numbers |-> recommendations[i],
                  prize_type |-> "Direct", prize_amount |-> PRIZE_VALUE]>>
          ELSE <<>>)
         \o WinningDetails_ZeroBased(recommendations, prize_numbers, i + 1)

\* winning_details of recommendations[i..], i the 1-based position.
RECURSIVE WinningDetails(_, _, _)
WinningDetails(recommendations, prize_numbers, i) ==
    IF i > Len(recommendations) THEN <<>>
    ELSE (IF Len(recommendations[i]) = 5 /\ recommendations[i] = prize_numbers
          THEN <<[index |-> i, numbers |-> recommendations[i],
                  prize_type |-> "Direct", prize_amount |-> PRIZE_VALUE]>>
          ELSE <<>>)
         \o WinningDetails(recommendations, prize_numbers, i + 1)

\* The triple returned; prize_stats is a dict, {} being the empty function.
CalculatePrize(recommendations, prize_numbers) ==
    IF recommendations = <<>> \/ prize_numbers = <<>> \/ Len(prize_numbers) # 5
    THEN [total_prize |-> 0, prize_stats |-> <<>>, winning_details |-> <<>>]
    ELSE LET details == WinningDetails(recommendations, prize_numbers, 1)
         IN  [total_prize |-> PRIZE_VALUE * Len(details),
              prize_stats |-> [t \in {"Direct"} |-> Len(details)],
              winning_details |-> details]

(***************************************************************************)
(* main_process: what it hands to manage_report                            *)
(***************************************************************************)
\* error_msg: "处理过程中发生错误: " followed by str(e); it contains "错误".
ErrorMsg(kind, detail) == <<"ProcessingError", kind>> \o detail

\* entry_data
MakeEntry(eval_period, numbers, recs) ==
    LET result == CalculatePrize(recs, numbers)
    IN  [period |-> eval_period,
         prize_numbers |-> numbers,
         recommendation_count |-> Len(recs),
         winning_count |-> Len(result.winning_details),
         total_prize |-> result.total_prize,
         winning_details |-> result.winning_details]

(***************************************************************************)
(* The effect of one invocation of manage_report on the file.  The history *)
(* variables record what was inserted.                                     *)
(***************************************************************************)
\* The write of what manage_report assembled from the content it had read.
LedgerWriteFrom(content, new_entry, new_error) ==
    /\ ledger' = ManageReport(content, new_entry, new_error, clock)
    /\ clock' = clock + 1
    /\ prev_ledger' = ledger
    /\ last_write' = IF new_entry # None THEN "entry" ELSE "error"
    /\ inserted_normal' = IF new_entry # None
                          THEN <<RenderEntry(new_entry[1], clock)>> \o inserted_normal
                          ELSE inserted_normal
    /\ inserted_error' = IF new_error # None
                         THEN <<RenderError(new_error[1], clock)>> \o inserted_error
                         ELSE inserted_error
    /\ writes' = writes + 1

\* Read and write with nothing in between (one process).
LedgerWrite(new_entry, new_error) == LedgerWriteFrom(ledger, new_entry, new_error)

NoLedger ==
    /\ ledger = <<>>
    /\ clock = 1
    /\ prev_ledger = <<>>
    /\ last_write = "none"
    /\ inserted_normal = <<>>
    /\ inserted_error = <<>>
    /\ writes = 0

(***************************************************************************)
(* Values the variables of the other parts hold while a part runs alone    *)
(***************************************************************************)
NoRun ==
    [outcome |-> "none", error |-> <<>>, found |-> FALSE, periods_list |-> <<>>,
     eval_period |-> <<>>, data_cutoff_period |-> <<>>, recommendations |-> <<>>,
     numbers |-> <<>>, total_prize |-> 0, winning_count |-> 0,
     winning_details |-> <<>>]

MainIdle ==
    /\ csv_file = None
    /\ report_files = {}
    /\ run = NoRun
    /\ cycles = 0

PureIdle ==
    /\ report_content = <<>>
    /\ given_bets = <<>>
    /\ given_numbers = <<>>
    /\ parsed = None
    /\ scored = None

Procs == {1, 2}

ConcIdle ==
    /\ pc = [p \in Procs |-> "idle"]
    /\ content_read = [p \in Procs |-> <<>>]
    /\ call = [p \in Procs |-> [new_entry |-> None, new_error |-> None]]
    /\ stale = [p \in Procs |-> FALSE]
    /\ prev_entry = <<>>
    /\ last_call = [new_entry |-> None, new_error |-> None]
    /\ last_read = <<>>
    /\ last_stale = FALSE

(***************************************************************************)
(* SpecLedger: runs that each end in one manage_report call                *)
(***************************************************************************)
P1000 == <<"1", "0", "0", "0">>
P1001 == <<"1", "0", "0", "1">>
Sevens == <<7, 7, 7, 7, 7>>
OneToFive == <<1, 2, 3, 4, 5>>

\* An evaluation with one winning bet out of two: the entry carries a detail block.
SampleEntries == {MakeEntry(P1001, Sevens, <<OneToFive, Sevens>>)}

SampleErrors == {ErrorMsg("CsvUnreadable", <<>>)}

\* manage_report(new_entry=entry_data)
RecordEvaluation ==
    /\ writes < MaxWrites
    /\ \E e \in SampleEntries : LedgerWrite(Some(e), None)
    /\ UNCHANGED <<mainVars, pureVars, concVars>>

\* manage_report(new_error=error_msg)
RecordError ==
    /\ writes < MaxWrites
    /\ \E m \in SampleErrors : LedgerWrite(None, Some(m))
    /\ UNCHANGED <<mainVars, pureVars, concVars>>

InitLedger == NoLedger /\ MainIdle /\ PureIdle /\ ConcIdle

NextLedger == RecordEvaluation \/ RecordError

SpecLedger == InitLedger /\ [][NextLedger]_vars

(***************************************************************************)
(* Claims about the ledger, checked under SpecLedger                       *)
(***************************************************************************)
\* Whether section occurs among sections.
SectionIn(section, sections) ==
    \E i \in 1..Len(sections) : sections[i] = section

\* C1: after every write the normal records read back from the ledger are
\* exactly the MAX_NORMAL_RECORDS newest entries ever inserted, newest first;
\* there are never more than MAX_NORMAL_RECORDS of them, and every older
\* entry (the oldest one after MAX_NORMAL_RECORDS + 1 inserts) is absent
\* from the file.
NormalRetention ==
    /\ NormalRecords(ledger) = Take(inserted_normal, MAX_NORMAL_RECORDS)
    /\ Len(NormalRecords(ledger)) <= MAX_NORMAL_RECORDS
    /\ \A i \in 1..Len(inserted_normal) :
           i > MAX_NORMAL_RECORDS => ~SectionIn(inserted_normal[i], ledger)

\* MAX_NORMAL_RECORDS + 1 entries were inserted, the last write being one of them.
NormalRetentionWitness ==
    /\ Len(inserted_normal) = MAX_NORMAL_RECORDS + 1
    /\ last_write = "entry"
    /\ ~SectionIn(inserted_normal[MAX_NORMAL_RECORDS + 1], ledger)

\* C2: the sections the next run reads back as error entries are exactly the
\* min(k, MAX_ERROR_LOGS) newest of the k error messages recorded, newest
\* first (so at most MAX_ERROR_LOGS of them).
ErrorRetentionClaimed ==
    ErrorLogs(ledger) = Take(inserted_error, MAX_ERROR_LOGS)

\* C8: a write that adds a normal entry leaves the stored error entries as
\* they were, a write that adds an error entry leaves the stored normal
\* records as they were, and every section read back as an entry is the
\* rendered text of an entry that was inserted.
StreamsIndependentClaimed ==
    /\ last_write = "entry" => ErrorLogs(ledger) = ErrorLogs(prev_ledger)
    /\ last_write = "error" => NormalRecords(ledger) = NormalRecords(prev_ledger)
    /\ \A i \in 1..Len(ledger) :
           /\ IsErrorSection(ledger[i]) => SectionIn(ledger[i], inserted_error)
           /\ IsNormalSection(ledger[i]) => SectionIn(ledger[i], inserted_normal)

(***************************************************************************)
(* main_process                                                            *)
(***************************************************************************)
\* The run ends in the except branch with str(e) = kind, detail.
ErrorRun(kind, detail, data, cutoff) ==
    [outcome |-> "error", error |-> ErrorMsg(kind, detail), found |-> data.found,
     periods_list |-> data.periods_list,
     eval_period |-> <<>>, data_cutoff_period |-> cutoff, recommendations |-> <<>>,
     numbers |-> <<>>, total_prize |-> 0, winning_count |-> 0,
     winning_details |-> <<>>]

NoData == [found |-> FALSE, periods_list |-> <<>>]

\* The locals of one run over the files csv and files.
MainRun(csv, files) ==
    IF csv = None
    THEN ErrorRun("CsvUnreadable", <<>>, NoData, <<>>)
    ELSE
    LET data == GetPeriodDataFromCsv(csv[1])
        periods_list == data.periods_list
    IN  IF ~data.found
        THEN ErrorRun("CsvParseFailed", <<>>, NoData, <<>>)
        ELSE IF Len(periods_list) < 2
        THEN ErrorRun("InsufficientData", <<>>, data, <<>>)
        ELSE
        LET eval_period == periods_list[Len(periods_list)]
            data_cutoff_period == periods_list[Len(periods_list) - 1]
            report == FindMatchingReport(files, data_cutoff_period)
        IN  IF report = None
            THEN ErrorRun("ReportNotFound", data_cutoff_period, data,
                          data_cutoff_period)
            ELSE
            LET recs == ParseSingles(report[1].bets)
            IN  IF recs = <<>>
                THEN ErrorRun("NoRecommendations", <<>>, data, data_cutoff_period)
                ELSE
                LET numbers == data.period_map[eval_period]
                    entry == MakeEntry(eval_period, numbers, recs)
                IN  [outcome |-> "entry", error |-> <<>>, found |-> TRUE,
                     periods_list |-> periods_list,
                     eval_period |-> eval_period,
                     data_cutoff_period |-> data_cutoff_period,
                     recommendations |-> recs,
                     numbers |-> numbers,
                     total_prize |-> entry.total_prize,
                     winning_count |-> entry.winning_count,
                     winning_details |-> entry.winning_details]

\* One run of main_process, its manage_report call included.
MainProcess ==
    /\ cycles < MaxCycles
    /\ LET r == MainRun(csv_file, report_files)
       IN  /\ run' = r
           /\ IF r.outcome = "entry"
              THEN LedgerWrite(Some(MakeEntry(r.eval_period, r.numbers,
                                              r.recommendations)), None)
              ELSE LedgerWrite(None, Some(r.error))
    /\ cycles' = cycles + 1
    /\ UNCHANGED <<csv_file, report_files, pureVars, concVars>>

(***************************************************************************)
(* SpecMain: the files a run can find                                      *)
(***************************************************************************)
P100 == <<"1", "0", "0">>
P101 == <<"1", "0", "1">>
P01000 == <<"0", "1", "0", "0", "0">>
P9999 == <<"9", "9", "9", "9">>
P10000 == <<"1", "0", "0", "0", "0">>

\* A field holding one digit, and a data row of a period and five such fields.
Field(d) == <<DigitChars[d + 1]>>
Row(period, numbers) == <<period>> \o [i \in 1..5 |-> Field(numbers[i])]

DrawRows ==
    { Row(P1000, OneToFive),
      Row(P1000, Sevens),
      Row(P1001, Sevens),
      Row(P100, OneToFive),
      Row(P101, Sevens),
      Row(P01000, OneToFive),
      Row(P9999, OneToFive),
      Row(P10000, Sevens),
      <<P1001, <<"1", "0">>, <<"1">>, <<"1">>, <<"1">>, <<"1">>>>,
      <<P1001, <<"x">>, <<"1">>, <<"1">>, <<"1">>, <<"1">>>>,
      <<P1001, <<"1">>, <<"2">>>> }

RECURSIVE Tables(_)
Tables(n) ==
    IF n = 0 THEN {<<>>}
    ELSE Tables(n - 1)
         \cup {Append(t, r) : t \in {u \in Tables(n - 1) : Len(u) = n - 1},
                              r \in DrawRows}

CsvFiles == {None} \cup {Some(t) : t \in Tables(MaxRows)}

\* The text between the brackets of a bet line listing the five digits.
BetBody(numbers) ==
    <<DigitChars[numbers[1] + 1], ",", " ", DigitChars[numbers[2] + 1], ",", " ",
      DigitChars[numbers[3] + 1], ",", " ", DigitChars[numbers[4] + 1], ",", " ",
      DigitChars[numbers[5] + 1]>>

BetLine(k, numbers) == [label |-> k, body |-> BetBody(numbers)]

ShortBetLine(k) == [label |-> k, body |-> <<"1", ",", "2", ",", "3", ",", "4">>]

ReportSevens ==
    [path |-> 1, stamp |-> Some(1), cutoff |-> Some(P1000),
     bets |-> <<BetLine(1, Sevens)>>]
ReportLater ==
    [path |-> 2, stamp |-> Some(2), cutoff |-> Some(P1000),
     bets |-> <<BetLine(1, OneToFive), BetLine(2, Sevens)>>]
ReportShortPeriod ==
    [path |-> 3, stamp |-> Some(1), cutoff |-> Some(P100),
     bets |-> <<BetLine(1, Sevens)>>]
ReportNoStamp ==
    [path |-> 4, stamp |-> None, cutoff |-> Some(P1000),
     bets |-> <<BetLine(1, Sevens)>>]
ReportNoBets ==
    [path |-> 5, stamp |-> Some(3), cutoff |-> Some(P1001),
     bets |-> <<ShortBetLine(1)>>]
ReportNoCutoff ==
    [path |-> 6, stamp |-> Some(4), cutoff |-> None,
     bets |-> <<BetLine(1, Sevens)>>]

ReportDirs ==
    { {},
      {ReportSevens},
      {ReportSevens, ReportLater, ReportNoCutoff},
      {ReportShortPeriod, ReportNoStamp},
      {ReportSevens, ReportNoBets} }

\* The ledger a run starts from: none, or the one left by an earlier failed run.
InitMain ==
    /\ \/ NoLedger
       \/ /\ ledger = ManageReport(<<>>, None, Some(ErrorMsg("CsvUnreadable", <<>>)), 0)
          /\ clock = 1
          /\ prev_ledger = <<>>
          /\ last_write = "none"
          /\ inserted_normal = <<>>
          /\ inserted_error = <<RenderError(ErrorMsg("CsvUnreadable", <<>>), 0)>>
          /\ writes = 0
    /\ csv_file \in CsvFiles
    /\ report_files \in ReportDirs
    /\ run = NoRun
    /\ cycles = 0
    /\ PureIdle
    /\ ConcIdle

NextMain == MainProcess

SpecMain == InitMain /\ [][NextMain]_vars

(***************************************************************************)
(* Claims about main_process, checked under SpecMain                       *)
(***************************************************************************)
\* C3: whenever get_period_data_from_csv returns data, its period list is
\* strictly ascending by numeric value (hence without duplicates).
PeriodsStrictlyAscendingClaimed ==
    run.found =>
        \A i \in 1..(Len(run.periods_list) - 1) :
            IntOf(run.periods_list[i]) < IntOf(run.periods_list[i + 1])

\* The scenario of C4 for a cutoff period and an evaluation period: the table
\* holds these two periods, the evaluation period's numbers are 7,7,7,7,7, and
\* the reports declaring the cutoff period hold the one bet [7,7,7,7,7].
Scenario(cutoff, eval) ==
    /\ csv_file = Some(<<Row(cutoff, OneToFive), Row(eval, Sevens)>>)
    /\ \E f \in report_files : f.cutoff = Some(cutoff) /\ f.stamp # None
    /\ \A f \in report_files :
           f.cutoff = Some(cutoff) => f.bets = <<BetLine(1, Sevens)>>

\* A section rendered from an error message (not the header).
IsErrorEntry(section) == Len(section) > 0 /\ section[1].label = "ErrTime"

ErrorEntries(sections) == SelectSeq(sections, IsErrorEntry)

\* The run scored one win and wrote a normal entry for period eval, and no
\* error entry.
ScenarioResult(eval) ==
    /\ run.outcome = "entry"
    /\ run.total_prize = 100000
    /\ run.winning_count = 1
    /\ last_write = "entry"
    /\ writes = cycles
    /\ Len(NormalRecords(ledger)) >= 1
    /\ NormalRecords(ledger)[1][1] = [label |-> "EvalTime", value |-> <<clock - 1>>]
    /\ NormalRecords(ledger)[1][2] = [label |-> "EvalPeriod", value |-> eval]
    /\ NormalRecords(ledger)[1][6] = [label |-> "TotalPrize", value |-> <<100000>>]
    /\ ErrorEntries(ledger) = ErrorEntries(prev_ledger)

\* C4 as stated: with periods "100" and "101" a cycle produces total prize
\* 100000, winning_count 1 and a normal ledger entry recording period "101".
EndToEndScenarioClaimed ==
    (cycles >= 1 /\ Scenario(P100, P101)) => ScenarioResult(P101)

\* C4 amended: the same scenario with periods of 4 to 7 digits ("1000" and
\* "1001") produces total prize 100000, winning_count 1 and a normal ledger
\* entry recording period "1001", and no error entry.
EndToEndScenario ==
    (cycles >= 1 /\ Scenario(P1000, P1001)) => ScenarioResult(P1001)

\* The amended scenario has run on a ledger that already held an error entry.
EndToEndScenarioWitness ==
    /\ cycles = 1
    /\ Scenario(P1000, P1001)
    /\ run.total_prize = 100000
    /\ ErrorEntries(prev_ledger) # <<>>

\* The conditions C7 lists for a run to end in an error entry.
ErrorExpected ==
    \/ csv_file = None
    \/ LET data == GetPeriodDataFromCsv(csv_file[1])
           n == Len(data.periods_list)
       IN  \/ ~data.found
           \/ n < 2
           \/ Candidates(report_files, data.periods_list[n - 1]) = {}
           \/ ParseSingles(LatestCandidate(
                  Candidates(report_files, data.periods_list[n - 1])).bets) = <<>>

\* C7: every run makes exactly one ledger write that adds exactly one entry:
\* under the listed conditions one error entry at the front of the error
\* stream and no normal record, otherwise one normal record at the front of
\* the normal stream and no error entry.
OneEntryPerRunClaimed ==
    cycles >= 1 =>
        /\ writes = cycles
        /\ (run.outcome = "error") = ErrorExpected
        /\ run.outcome = "error" =>
               /\ ErrorLogs(ledger) =
                      <<RenderError(run.error, clock - 1)>> \o ErrorLogs(prev_ledger)
               /\ NormalRecords(ledger) = NormalRecords(prev_ledger)
        /\ run.outcome = "entry" =>
               /\ Len(NormalRecords(ledger)) = Len(NormalRecords(prev_ledger)) + 1
               /\ Tail(NormalRecords(ledger)) = NormalRecords(prev_ledger)
               /\ NormalRecords(ledger)[1][2] =
                      [label |-> "EvalPeriod", value |-> run.eval_period]
               /\ ErrorLogs(ledger) = ErrorLogs(prev_ledger)

\* The distinct periods of a period list.
DistinctPeriods(periods_list) ==
    {periods_list[i] : i \in 1..Len(periods_list)}

\* C9: a run scores only when the table holds at least 2 distinct periods; the
\* evaluation period is then the newest period, the data-cutoff period is
\* another, older period, the newest of the remaining ones.
ScoresOnTwoDistinctPeriodsClaimed ==
    run.outcome = "entry" =>
        /\ Cardinality(DistinctPeriods(run.periods_list)) >= 2
        /\ \A p \in DistinctPeriods(run.periods_list) :
               IntOf(p) <= IntOf(run.eval_period)
        /\ run.data_cutoff_period # run.eval_period
        /\ \A p \in DistinctPeriods(run.periods_list) \ {run.eval_period} :
               IntOf(p) <= IntOf(run.data_cutoff_period)

(***************************************************************************)
(* SpecParse: the extractor on a report text, then the scoring of what it  *)
(* returned (main_process scores only a non-empty list)                    *)
(***************************************************************************)
BetLineSamples ==
    { BetLine(1, Sevens),
      BetLine(2, Sevens),
      BetLine(3, OneToFive),
      ShortBetLine(2),
      [label |-> 1, body |-> <<"1", ",", "2", ",", "3", ",", "4", ",", "5", ",", "6">>],
      [label |-> 2, body |-> <<"1", "2", ",", " ", "3", ",", "4", ",", "5">>],
      [label |-> 1, body |-> <<"7", ",", "7", ",", "7", ",", "7", ",", "x">>] }

RECURSIVE SeqsUpTo(_, _)
SeqsUpTo(S, n) ==
    IF n = 0 THEN {<<>>}
    ELSE SeqsUpTo(S, n - 1)
         \cup {Append(t, x) : t \in {u \in SeqsUpTo(S, n - 1) : Len(u) = n - 1},
                              x \in S}

\* recommendations_data = parse_recommendations_from_report(report_content)
ParseReport ==
    /\ parsed = None
    /\ parsed' = Some(ParseSingles(report_content))
    /\ UNCHANGED <<ledgerVars, mainVars, concVars, report_content, given_bets,
                   given_numbers, scored>>

\* calculate_prize(recommendations, prize_numbers) on the parsed list
ScoreParsed ==
    /\ parsed # None
    /\ parsed[1] # <<>>
    /\ scored = None
    /\ scored' = Some(CalculatePrize(parsed[1], given_numbers))
    /\ UNCHANGED <<ledgerVars, mainVars, concVars, report_content, given_bets,
                   given_numbers, parsed>>

InitParse ==
    /\ NoLedger
    /\ MainIdle
    /\ ConcIdle
    /\ report_content \in SeqsUpTo(BetLineSamples, MaxBetLines)
    /\ given_bets = <<>>
    /\ given_numbers \in {Sevens, OneToFive}
    /\ parsed = None
    /\ scored = None

NextParse == ParseReport \/ ScoreParsed

SpecParse == InitParse /\ [][NextParse]_vars

\* The brackets of the line hold list characters of which exactly 5 are digits.
FiveDigitLine(line) ==
    /\ Len(line.body) > 0
    /\ \A i \in 1..Len(line.body) : line.body[i] \in {",", " "} \/ IsDigit(line.body[i])
    /\ Cardinality({i \in 1..Len(line.body) : IsDigit(line.body[i])}) = 5

\* C5: a single-bet line labelled k that lists exactly 5 digits yields that
\* tuple at index k of the extracted list, k being the bet index reported in
\* the win record of that bet; a line with other than 5 digits yields no entry.
ExtractionIndexClaimed ==
    parsed # None =>
        /\ \A j \in 1..Len(report_content) :
               FiveDigitLine(report_content[j]) =>
                   /\ report_content[j].label <= Len(parsed[1])
                   /\ parsed[1][report_content[j].label]
                          = DigitsIn(report_content[j].body)
        /\ Len(parsed[1]) =
               Cardinality({j \in 1..Len(report_content) :
                                FiveDigitLine(report_content[j])})
        /\ scored # None =>
               \A w \in 1..Len(scored[1].winning_details) :
                   \E j \in 1..Len(report_content) :
                       /\ FiveDigitLine(report_content[j])
                       /\ report_content[j].label
                              = scored[1].winning_details[w].index
                       /\ DigitsIn(report_content[j].body)
                              = scored[1].winning_details[w].numbers

(***************************************************************************)
(* SpecPrize: calculate_prize on a list of bets                            *)
(***************************************************************************)
BetSamples == {Sevens, OneToFive, <<1, 2, 3, 4, 6>>, <<1, 2, 3, 4>>}

NumbersSamples == {OneToFive, Sevens, <<1, 2, 3, 4>>}

\* calculate_prize(recommendations, prize_numbers)
CalculatePrizeCall ==
    /\ scored = None
    /\ scored' = Some(CalculatePrize(given_bets, given_numbers))
    /\ UNCHANGED <<ledgerVars, mainVars, concVars, report_content, given_bets,
                   given_numbers, parsed>>

InitPrize ==
    /\ NoLedger
    /\ MainIdle
    /\ ConcIdle
    /\ report_content = <<>>
    /\ given_bets \in SeqsUpTo(BetSamples, MaxBets)
    /\ given_numbers \in NumbersSamples
    /\ parsed = None
    /\ scored = None

NextPrize == CalculatePrizeCall

SpecPrize == InitPrize /\ [][NextPrize]_vars

\* The inputs C6 speaks of: 5-digit bets and a 5-digit authoritative tuple.
FiveDigitInputs ==
    /\ Len(given_numbers) = 5
    /\ \A i \in 1..Len(given_bets) : Len(given_bets[i]) = 5

\* The 1-based positions of the bets equal to the authoritative tuple.
WinningPositions ==
    {i \in 1..Len(given_bets) : \A k \in 1..5 : given_bets[i][k] = given_numbers[k]}

\* The win records are the winning bets in bet order with their positions,
\* each at the fixed amount.
WinRecordsExact(details) ==
    /\ Len(details) = Cardinality(WinningPositions)
    /\ \A w \in 1..Len(details) :
           /\ details[w].index \in WinningPositions
           /\ details[w].numbers = given_bets[details[w].index]
           /\ details[w].prize_amount = 100000
    /\ \A v, w \in 1..Len(details) : v < w => details[v].index < details[w].index

\* The tier count equals the number of win records and the total is 100000 each.
TotalsExact(result) ==
    /\ "Direct" \in DOMAIN result.prize_stats
    /\ result.prize_stats["Direct"] = Len(result.winning_details)
    /\ result.total_prize = 100000 * Len(result.winning_details)

\* C6 as stated: for every list of 5-digit bets the win records are exactly
\* the bets equal to the authoritative tuple, the tier count equals their
\* number and the total prize is 100000 times it.
ExactMatchScoringClaimed ==
    (scored # None /\ FiveDigitInputs) =>
        /\ WinRecordsExact(scored[1].winning_details)
        /\ TotalsExact(scored[1])

\* C6 amended: the same for every non-empty list of 5-digit bets; for the
\* empty list the total is 0, there are no win records and the tier summary
\* is empty (it holds no count).
ExactMatchScoring ==
    (scored # None /\ FiveDigitInputs) =>
        /\ WinRecordsExact(scored[1].winning_details)
        /\ given_bets # <<>> => TotalsExact(scored[1])
        /\ given_bets = <<>> =>
               /\ scored[1].total_prize = 0
               /\ DOMAIN scored[1].prize_stats = {}

\* (1,2,3,4,6) then (1,2,3,4,5) were scored against (1,2,3,4,5): one win, at 2.
ExactMatchScoringWitness ==
    /\ scored # None
    /\ given_numbers = OneToFive
    /\ given_bets = <<<<1, 2, 3, 4, 6>>, OneToFive>>
    /\ Len(scored[1].winning_details) = 1
    /\ scored[1].winning_details[1].index = 2
    /\ scored[1].total_prize = 100000

(***************************************************************************)
(* SpecConcurrent: two processes invoking manage_report on the same ledger *)
(* path with no lock, each invocation a read step and a write step         *)
(***************************************************************************)
\* The arguments main_process calls manage_report with.
Calls ==
    {[new_entry |-> Some(e), new_error |-> None] : e \in SampleEntries}
    \cup {[new_entry |-> None, new_error |-> Some(m)] : m \in SampleErrors}

\* Invocations begun so far.
Started == writes + Cardinality({p \in Procs : pc[p] = "write"})

\* A variant that merges into the file as it is at the write (as if the read
\* and the write were one locked step; used to test LastWriterWins).
ContentMerged_Reread(p) == ledger

\* The existing_content process p splits and merges into: what it read.
ContentMerged(p) == content_read[p]

\* The section the call inserts, rendered at time now.
InsertedSection(c, now) ==
    IF c.new_entry # None THEN RenderEntry(c.new_entry[1], now)
    ELSE RenderError(c.new_error[1], now)

\* Process p is called with c and reads the existing content.
ReadStep(p) ==
    /\ pc[p] = "idle"
    /\ Started < MaxInvocations
    /\ \E c \in Calls : call' = [call EXCEPT ![p] = c]
    /\ content_read' = [content_read EXCEPT ![p] = ledger]
    /\ stale' = [stale EXCEPT ![p] = FALSE]
    /\ pc' = [pc EXCEPT ![p] = "write"]
    /\ UNCHANGED <<ledgerVars, mainVars, pureVars, prev_entry, last_call,
                   last_read, last_stale>>

\* Process p merges its entry into what it read and replaces the file.
WriteStep(p) ==
    /\ pc[p] = "write"
    /\ LedgerWriteFrom(ContentMerged(p), call[p].new_entry, call[p].new_error)
    /\ pc' = [pc EXCEPT ![p] = "idle"]
    /\ stale' = [q \in Procs |-> q # p /\ (stale[q] \/ pc[q] = "write")]
    /\ prev_entry' = IF writes = 0 THEN <<>>
                     ELSE InsertedSection(last_call, clock - 1)
    /\ last_call' = call[p]
    /\ last_read' = content_read[p]
    /\ last_stale' = stale[p]
    /\ UNCHANGED <<mainVars, pureVars, content_read, call>>

InitConcurrent == NoLedger /\ MainIdle /\ PureIdle /\ ConcIdle

NextConcurrent == \E p \in Procs : ReadStep(p) \/ WriteStep(p)

SpecConcurrent == InitConcurrent /\ [][NextConcurrent]_vars

\* C10: the last writer wins: the file is exactly what the last writer
\* assembled from the content it had read.  If it had read before the
\* previous write happened (the two invocations interleaved), the previous
\* writer's entry is missing from the file; if it read after the previous
\* write (one invocation after the other), both entries are in the file.
LastWriterWins ==
    /\ writes >= 1 =>
           /\ ledger = ManageReport(last_read, last_call.new_entry,
                                    last_call.new_error, clock - 1)
           /\ SectionIn(InsertedSection(last_call, clock - 1), ledger)
    /\ writes >= 2 =>
           /\ last_stale => ~SectionIn(prev_entry, ledger)
           /\ ~last_stale => SectionIn(prev_entry, ledger)

\* Two invocations interleaved and the first writer's entry was lost.
LastWriterWinsWitness ==
    /\ writes >= 2
    /\ last_stale
    /\ ~SectionIn(prev_entry, ledger)
    /\ SectionIn(prev_entry, prev_ledger)
    /\ SectionIn(InsertedSection(last_call, clock - 1), ledger)

=============================================================================
